---- MODULE Spec2Model ----
(***************************************************************************)
(* VariantMap (dash_bio/component_factory/_variant.py): the table          *)
(* subsetting, batching and reshaping done by _VariantMap.__init__, the    *)
(* colour list built by VariantMap and the step colorscale built by        *)
(* discrete_colorscale.                                                    *)
(*                                                                         *)
(* Representation.                                                         *)
(*  - A table (pandas DataFrame) is [cols, rows]: the set of column names  *)
(*    and the sequence of rows; a row is [index, cells], its index label   *)
(*    and the function from column name to cell value.                     *)
(*  - Text cells are sequences of one-character strings, so that           *)
(*    str.contains is a real substring search. The alphabet holds no regex *)
(*    metacharacter, so the '|'-joined pattern matches iff one of the      *)
(*    joined alternatives is a substring.                                  *)
(*  - Sample cells are the class codes 0.0, 0.2, ... in tenths (0, 2, ..). *)
(*  - Python objects that can be aliased live in two heaps, tables and     *)
(*    lists; the program variables df, df_new, samples, sample_order and   *)
(*    names hold references into them.                                     *)
(*  - Colorscale positions are in thousandths (round(x, 3) * 1000).        *)
(***************************************************************************)
EXTENDS Integers, Sequences, FiniteSets, TLC

VARIABLES
    pc,                    \* position in VariantMap / _VariantMap.__init__
    tables,                \* heap of DataFrame objects
    lists,                 \* heap of list objects
    df,                    \* reference: the local df of __init__
    df_new,                \* reference: the local df_new of __init__
    samples,               \* reference: the local samples of VariantMap
    sample_order,          \* reference: the local sample_order of __init__
    names,                 \* reference: the local names / self.names
    sample_order_given,    \* the caller passed sample_order (not None)
    annotation,            \* dict in insertion order, <<[key, val], ...>>; <<>>: None or {}
    filter_sample,         \* list; <<>> is None or []
    filter_file,           \* list; <<>> is None or []
    sample_names,          \* [none, map]
    color_list,            \* [none, map]
    entries_per_batch,
    batch_no,
    markers,               \* argument of discrete_colorscale
    colors,                \* argument of discrete_colorscale
    dcolorsc,              \* self.dcolorsc / result of discrete_colorscale
    batch_size,            \* self.batch_size
    z,                     \* self.z
    hover,                 \* self.hover
    snap                   \* history: index labels of df after each subsetting step

vars == <<pc, tables, lists, df, df_new, samples, sample_order, names,
          sample_order_given, annotation, filter_sample, filter_file,
          sample_names, color_list, entries_per_batch, batch_no, markers,
          colors, dcolorsc, batch_size, z, hover, snap>>

(***************************************************************************)
(* Bounds of the model.                                                    *)
(***************************************************************************)
MaxRows == 3
MaxWideRows == 1
MaxBatchRows == 7
MaxEntries == 4
LargeRows == 1002
MaxMarker == 4
MaxColors == 2

(***************************************************************************)
(* Sequences and text.                                                     *)
(***************************************************************************)
\* Mutant: the [::-1] / reverse() is left out.
NotReversed(s) == s

Reverse(s) == [i \in 1..Len(s) |-> s[Len(s) + 1 - i]]

Range(s) == {s[i] : i \in 1..Len(s)}

SeqsUpTo(S, n) == UNION {[1..k -> S] : k \in 0..n}

IsSubstr(p, s) ==
    \E k \in 0..(Len(s) - Len(p)) : \A j \in 1..Len(p) : s[k + j] = p[j]

\* Series.str.contains('|'.join(pats)) on one cell.
StrContains(s, pats) == \E i \in 1..Len(pats) : IsSubstr(pats[i], s)

\* [x + ';' for x in annotation['Gene_name']]
GenePatterns(genes) == [i \in 1..Len(genes) |-> Append(genes[i], ";")]

HoverCol(x) == "Hover_" \o x

(***************************************************************************)
(* DataFrame operations.                                                   *)
(***************************************************************************)
NoTable == [cols |-> {}, rows |-> <<>>]

IndexOf(t) == [i \in 1..Len(t.rows) |-> t.rows[i].index]

\* df[mask]: the frame of the rows for which the mask is true (kept, a
\* subsequence of the rows in table order).
Mask(t, kept) == [cols |-> t.cols, rows |-> kept]

\* df.loc[labels, :]: for each label in turn, the rows carrying it.
RECURSIVE LocRows(_, _)
LocRows(rows, labels) ==
    IF labels = <<>> THEN <<>>
    ELSE SelectSeq(rows, LAMBDA r : r.index = Head(labels))
             \o LocRows(rows, Tail(labels))

\* df.loc raises KeyError for a label that is not in the index.
LocOk(t, labels) ==
    \A i \in 1..Len(labels) : \E j \in 1..Len(t.rows) : t.rows[j].index = labels[i]

Loc(t, labels) == [cols |-> t.cols, rows |-> LocRows(t.rows, labels)]

\* pd.concat([a, b])
Concat(a, b) == [cols |-> a.cols \cup b.cols, rows |-> a.rows \o b.rows]

(***************************************************************************)
(* A subsetting step yields [ok, fresh, t]: whether it completed (no       *)
(* KeyError), whether t is a new object (the rebinding df = df[...]), and  *)
(* the table.                                                              *)
(***************************************************************************)
Same(t) == [ok |-> TRUE, fresh |-> FALSE, t |-> t]
New(t) == [ok |-> TRUE, fresh |-> TRUE, t |-> t]
Raised(t) == [ok |-> FALSE, fresh |-> FALSE, t |-> t]

HasKey(a, k) == \E i \in 1..Len(a) : a[i].key = k
Get(a, k) == a[CHOOSE i \in 1..Len(a) : a[i].key = k].val

GeneMatch(r, genes) == StrContains(r.cells["Gene_name"], GenePatterns(genes))

\* df[df['Gene_name'].str.contains(...)]
GeneRows(t, genes) == Mask(t, SelectSeq(t.rows, LAMBDA r : GeneMatch(r, genes)))

\* df = df[df['Gene_name'].str.contains(...)]
ByGene(res, genes) ==
    IF ~res.ok THEN res
    ELSE New(GeneRows(res.t, genes))

\* df = df.loc[annotation['index_list'], :]
ByIndex(res, labels) ==
    IF ~res.ok THEN res
    ELSE IF LocOk(res.t, labels) THEN New(Loc(res.t, labels))
    ELSE Raised(res.t)

\* Mutant: the two reserved filters applied one after the other.
GenesThenIndexes(t, genes, labels) ==
    LET g == GeneRows(t, genes)
    IN  IF LocOk(t, labels)
        THEN New([cols |-> t.cols,
                  rows |-> SelectSeq(g.rows, LAMBDA r : r.index \in Range(labels))])
        ELSE Raised(t)

\* df = pd.concat([df_genes, df_indexes])
GenesAndIndexes(t, genes, labels) ==
    IF LocOk(t, labels)
    THEN New(Concat(GeneRows(t, genes), Loc(t, labels)))
    ELSE Raised(t)

\* Lines 185-203: subset dataframe by gene name and SV index.
SubsetReserved(t, a) ==
    IF a = <<>> THEN Same(t)
    ELSE IF HasKey(a, "Gene_name") /\ HasKey(a, "index_list")
    THEN IF Get(a, "Gene_name") # <<>> /\ Get(a, "index_list") # <<>>
         THEN GenesAndIndexes(t, Get(a, "Gene_name"), Get(a, "index_list"))
         ELSE LET r1 == IF Get(a, "Gene_name") # <<>>
                        THEN ByGene(Same(t), Get(a, "Gene_name")) ELSE Same(t)
              IN  IF Get(a, "index_list") # <<>>
                  THEN ByIndex(r1, Get(a, "index_list")) ELSE r1
    ELSE LET r1 == IF HasKey(a, "Gene_name") /\ Get(a, "Gene_name") # <<>>
                   THEN ByGene(Same(t), Get(a, "Gene_name")) ELSE Same(t)
         IN  IF HasKey(a, "index_list") /\ Get(a, "index_list") # <<>>
             THEN ByIndex(r1, Get(a, "index_list")) ELSE r1

KeyMatch(r, key, vals) == StrContains(r.cells[key], vals)

\* df[df[_key].str.contains('|'.join(annotation[_key]))]
KeyRows(t, key, vals) ==
    Mask(t, SelectSeq(t.rows, LAMBDA r : KeyMatch(r, key, vals)))

\* Lines 205-212: subset dataframe by the other annotation keys, in dict order.
RECURSIVE SubsetAnnotation(_, _)
SubsetAnnotation(res, a) ==
    IF a = <<>> \/ ~res.ok THEN res
    ELSE LET e == Head(a)
         IN  IF e.val # <<>> /\ e.key \notin {"Gene_name", "index_list"}
             THEN SubsetAnnotation(New(KeyRows(res.t, e.key, e.val)), Tail(a))
             ELSE SubsetAnnotation(res, Tail(a))

\* Mutant: the comparison inverted.
SampleKeepNonZero(r, sample) == r.cells[sample] # 0

\* df[sample] == 0.0
SampleKeep(r, sample) == r.cells[sample] = 0

\* df[df[sample] == 0.0]
SampleRows(t, sample) ==
    Mask(t, SelectSeq(t.rows, LAMBDA r : SampleKeep(r, sample)))

\* Lines 214-217: subset dataframe by sample filter.
RECURSIVE SubsetSample(_, _)
SubsetSample(res, fs) ==
    IF fs = <<>> \/ ~res.ok THEN res
    ELSE SubsetSample(New(SampleRows(res.t, Head(fs))), Tail(fs))

\* Mutant: the comparison inverted.
FileKeepOverlapping(r, f) == r.cells[f] = "1"

\* df[_filter] != '1'
FileKeep(r, f) == r.cells[f] # "1"

\* df[df[_filter] != '1']
FileRows(t, f) == Mask(t, SelectSeq(t.rows, LAMBDA r : FileKeep(r, f)))

\* Lines 219-222: subset dataframe by filter file.
RECURSIVE SubsetFile(_, _)
SubsetFile(res, ff) ==
    IF ff = <<>> \/ ~res.ok THEN res
    ELSE SubsetFile(New(FileRows(res.t, Head(ff))), Tail(ff))

(***************************************************************************)
(* Batching, lines 230-240.                                                *)
(***************************************************************************)
CeilDiv(a, b) == (a + b - 1) \div b

\* math.ceil(len(df_new) / entries_per_batch): the integer part of div.
Divisions(n, e) == CeilDiv(n, e)

\* Mutant: the epsilon subtracted from the number of divisions, not added.
BatchSizeEpsilonBelow(n, e) ==
    IF n = 0 THEN 0 ELSE CeilDiv(1000 * n, 1000 * Divisions(n, e) - 1)

\* math.ceil(n / (Divisions + 0.001)). In exact arithmetic this is
\* ceil(1000 n / (1000 d + 1)); the double quotient can differ only where the
\* division is exact. For tables of up to 5000 rows it then lands just above
\* the integer when there is one division (n = 1001, 2002, ...) and on the
\* integer otherwise (n = 2001 with d = 2, ...).
BatchSize(n, e) ==
    LET d == Divisions(n, e)
        q == 1000 * n
        m == 1000 * d + 1
    IN  IF n > 0 /\ q % m = 0 /\ d = 1 THEN q \div m + 1 ELSE CeilDiv(q, m)

\* np.divmod(np.arange(n), batch_size)[0] + 1, for the row at 0-based position p.
Group(p, bs) == p \div bs + 1

\* df_new.loc[:, 'Group'] = ...: the column is written into the object itself.
WithGroup(t, bs) ==
    [cols |-> t.cols \cup {"Group"},
     rows |-> [i \in 1..Len(t.rows) |->
                  [index |-> t.rows[i].index,
                   cells |-> ("Group" :> Group(i - 1, bs)) @@ t.rows[i].cells]]]

\* Mutant: every group from batch_no on.
SelectBatchFrom(t, b) ==
    Mask(t, SelectSeq(t.rows, LAMBDA r : r.cells["Group"] >= b))

\* df_new[df_new['Group'].isin([int(batch_no_for_display)])]
SelectBatch(t, b) ==
    Mask(t, SelectSeq(t.rows, LAMBDA r : r.cells["Group"] = b))

(***************************************************************************)
(* Reshaping, lines 242-271.                                               *)
(***************************************************************************)
\* df_new.T.loc[cols, :].values.tolist(): one list per named column.
ColumnRows(t, cs) ==
    [i \in 1..Len(cs) |-> [j \in 1..Len(t.rows) |-> t.rows[j].cells[cs[i]]]]

\* [x for x in samples if x in df_new.columns]
ResolveOrder(s, t) == SelectSeq(s, LAMBDA x : x \in t.cols)

\* try: sample_names[name] except KeyError: name
Label(x, sn) == IF x \in DOMAIN sn THEN sn[x] ELSE x

(***************************************************************************)
(* Object identity.                                                        *)
(***************************************************************************)
\* Mutant: df_new = df, no copy.
SameRef(ref) == ref

\* df.copy() (line 225): df_new is a new object, whatever df refers to.
CopyRef(ref) == "copy"

\* The list comprehension of line 228 builds a new list.
OrderRef(ref) == "local"

\* names = sample_order (line 260) or names = [] (line 262)
NamesRef(none, ref) == IF none THEN ref ELSE "names"

(***************************************************************************)
(* Colours, lines 104-125, and discrete_colorscale, lines 360-371.         *)
(***************************************************************************)
sv_classes == <<"NIL", "DEL", "INV", "INS", "BND", "DUP", "UKN">>

color_dict ==
    [DEL |-> "#4daf4a", INV |-> "#377eb8", INS |-> "#e41a1c", BND |-> "#984ea3",
     DUP |-> "#ff7f00", UKN |-> "#000000", NIL |-> "#d1d9e0"]

\* try: color_list[_class] except KeyError: color_dict[_class]
ClassColor(c, cl) ==
    IF ~cl.none /\ c \in DOMAIN cl.map THEN cl.map[c] ELSE color_dict[c]

BuildColors(cl) == [i \in 1..Len(sv_classes) |-> ClassColor(sv_classes[i], cl)]

\* markers = [0.0, 0.2, 0.4, 0.6, 0.8, 1.0, 1.2, 1.4], in tenths
VariantMarkers == <<0, 2, 4, 6, 8, 10, 12, 14>>

\* round(a / b, 3) in thousandths, b > 0: Python rounds the double quotient to
\* the nearest thousandth, and an exact tie (possible only when 16 divides b,
\* where the quotient is an exact double) to the even one.
Round3(a, b) ==
    LET q == (1000 * a) \div b
        r == (1000 * a) % b
    IN  IF 2 * r < b THEN q
        ELSE IF 2 * r > b THEN q + 1
        ELSE IF q % 2 = 0 THEN q ELSE q + 1

Sorted(m) == SortSeq(m, LAMBDA a, b : a < b)

\* norm_mark, line 367
NormMark(m) ==
    LET s == Sorted(m)
    IN  [i \in 1..Len(s) |-> Round3(s[i] - s[1], s[Len(s)] - s[1])]

\* Mutant: both control points at the left boundary.
ColorPointsLeft(norm, cs, k) == << <<norm[k], cs[k]>>, <<norm[k], cs[k]>> >>

\* The two control points that one colour contributes, line 370
\* (k is the 1-based position of the colour).
ColorPoints(norm, cs, k) == << <<norm[k], cs[k]>>, <<norm[k + 1], cs[k]>> >>

RECURSIVE Extend(_, _, _)
Extend(norm, cs, k) ==
    IF k > Len(cs) THEN <<>>
    ELSE ColorPoints(norm, cs, k) \o Extend(norm, cs, k + 1)

\* markers[0] on an empty list and norm_mark[k + 1] past the end raise
\* IndexError; equal smallest and largest markers raise ZeroDivisionError.
ColorscaleRaises(m, cs) ==
    \/ m = <<>>
    \/ Sorted(m)[1] = Sorted(m)[Len(m)]
    \/ Len(cs) > Len(m) - 1

discrete_colorscale(m, cs) == Extend(NormMark(m), cs, 1)

(***************************************************************************)
(* The steps of a call.                                                    *)
(***************************************************************************)
\* VariantMap, lines 98-142: resolve samples, build the colour list.
VariantMap ==
    /\ pc = "VariantMap"
    /\ samples' = IF sample_order_given THEN "caller_order" ELSE "metadata"
    /\ colors' = BuildColors(color_list)
    /\ pc' = "__init__"
    /\ UNCHANGED <<tables, lists, df, df_new, sample_order, names,
                   sample_order_given, annotation, filter_sample, filter_file,
                   sample_names, color_list, entries_per_batch, batch_no,
                   markers, dcolorsc, batch_size, z, hover, snap>>

\* _VariantMap.__init__, lines 179-183: the discrete colorscale.
Colorscale ==
    /\ pc = "__init__"
    /\ markers' = VariantMarkers
    /\ IF ColorscaleRaises(VariantMarkers, colors)
       THEN pc' = "error" /\ UNCHANGED dcolorsc
       ELSE pc' = "subset" /\ dcolorsc' = discrete_colorscale(VariantMarkers, colors)
    /\ UNCHANGED <<tables, lists, df, df_new, samples, sample_order, names,
                   sample_order_given, annotation, filter_sample, filter_file,
                   sample_names, color_list, entries_per_batch, batch_no,
                   colors, batch_size, z, hover, snap>>

\* _VariantMap.__init__, lines 185-222: the four subsetting steps.
Subset ==
    /\ pc = "subset"
    /\ LET r1 == SubsetReserved(tables[df], annotation)
           r2 == SubsetAnnotation(r1, annotation)
           r3 == SubsetSample(r2, filter_sample)
           r4 == SubsetFile(r3, filter_file)
       IN  IF r4.ok
           THEN /\ pc' = "batch"
                /\ df' = IF r4.fresh THEN "derived" ELSE df
                /\ tables' = IF r4.fresh THEN [tables EXCEPT !.derived = r4.t]
                             ELSE tables
                /\ snap' = [reserved |-> IndexOf(r1.t), annot |-> IndexOf(r2.t),
                            sample |-> IndexOf(r3.t), file |-> IndexOf(r4.t)]
           ELSE /\ pc' = "error"
                /\ UNCHANGED <<df, tables, snap>>
    /\ UNCHANGED <<lists, df_new, samples, sample_order, names,
                   sample_order_given, annotation, filter_sample, filter_file,
                   sample_names, color_list, entries_per_batch, batch_no,
                   markers, colors, dcolorsc, batch_size, z, hover>>

\* _VariantMap.__init__, lines 224-240: copy, resolve the sample order, number the
\* groups in the copy, select the batch.
Batch ==
    /\ pc = "batch"
    /\ LET c == CopyRef(df)
           so == OrderRef(samples)
           t1 == [tables EXCEPT ![c] = tables[df]]
           bs == BatchSize(Len(t1[c].rows), entries_per_batch)
           t2 == [t1 EXCEPT ![c] = WithGroup(t1[c], bs)]
       IN  /\ lists' = [lists EXCEPT ![so] = ResolveOrder(lists[samples], t1[c])]
           /\ sample_order' = so
           /\ batch_size' = bs
           /\ tables' = [t2 EXCEPT !.batch = SelectBatch(t2[c], batch_no)]
           /\ df_new' = "batch"
    /\ pc' = "reshape"
    /\ UNCHANGED <<df, samples, names, sample_order_given, annotation,
                   filter_sample, filter_file, sample_names, color_list,
                   entries_per_batch, batch_no, markers, colors, dcolorsc,
                   z, hover, snap>>

\* _VariantMap.__init__, lines 242-271: transpose, pick the sample and hover
\* rows, reverse them, build and reverse the labels.
Reshape ==
    /\ pc = "reshape"
    /\ LET so == lists[sample_order]
           t == tables[df_new]
           hover_list == [i \in 1..Len(so) |-> HoverCol(so[i])]
           nr == NamesRef(sample_names.none, sample_order)
           l1 == IF sample_names.none THEN lists
                 ELSE [lists EXCEPT !.names =
                          [i \in 1..Len(so) |-> Label(so[i], sample_names.map)]]
       IN  IF \A i \in 1..Len(so) : hover_list[i] \in t.cols
           THEN /\ z' = Reverse(ColumnRows(t, so))
                /\ hover' = Reverse(ColumnRows(t, hover_list))
                /\ names' = nr
                /\ lists' = [l1 EXCEPT ![nr] = Reverse(l1[nr])]
                /\ pc' = "done"
           ELSE /\ pc' = "error"
                /\ z' = Reverse(ColumnRows(t, so))
                /\ UNCHANGED <<hover, names, lists>>
    /\ UNCHANGED <<tables, df, df_new, samples, sample_order,
                   sample_order_given, annotation, filter_sample, filter_file,
                   sample_names, color_list, entries_per_batch, batch_no,
                   markers, colors, dcolorsc, batch_size, snap>>

\* A direct call of discrete_colorscale(markers, colors).
ColorscaleCall ==
    /\ pc = "discrete_colorscale"
    /\ IF ColorscaleRaises(markers, colors)
       THEN pc' = "error" /\ UNCHANGED dcolorsc
       ELSE pc' = "returned" /\ dcolorsc' = discrete_colorscale(markers, colors)
    /\ UNCHANGED <<tables, lists, df, df_new, samples, sample_order, names,
                   sample_order_given, annotation, filter_sample, filter_file,
                   sample_names, color_list, entries_per_batch, batch_no,
                   markers, colors, batch_size, z, hover, snap>>

Next == VariantMap \/ Colorscale \/ Subset \/ Batch \/ Reshape

NextColor == Next \/ ColorscaleCall

(***************************************************************************)
(* Inputs. A table as VariantBreak writes it: a RangeIndex 0..n-1, the     *)
(* annotation columns, one class-code column and one hover column per      *)
(* sample, one column per filter file.                                     *)
(***************************************************************************)
AllCols ==
    {"Gene_name", "Gene_type", "Gene_feature", "S1", "S2", "Hover_S1",
     "Hover_S2", "Filter1", "Filter2"}

MetadataNames == <<"S1", "S2">>

\* The cells of the row with index label i and contents k.
CellsOf(i, k) ==
    [Gene_name |-> k.g, Gene_type |-> k.t, Gene_feature |-> k.f,
     S1 |-> k.s1, S2 |-> k.s2,
     Hover_S1 |-> <<"hover", i, "S1">>, Hover_S2 |-> <<"hover", i, "S2">>,
     Filter1 |-> k.f1, Filter2 |-> k.f2]

TableOf(ks) ==
    [cols |-> AllCols,
     rows |-> [i \in 1..Len(ks) |-> [index |-> i - 1, cells |-> CellsOf(i - 1, ks[i])]]]

Kind(g, t, f, s1, s2, f1, f2) ==
    [g |-> g, t |-> t, f |-> f, s1 |-> s1, s2 |-> s2, f1 |-> f1, f2 |-> f2]

PlainKind == Kind(<<"a", ";">>, <<"x">>, <<"p">>, 2, 0, "0", "0")

TablesOf(kinds, n) == {TableOf(ks) : ks \in SeqsUpTo(kinds, n)}

\* An annotation dict from optional entries, in the order given.
Entry(k, v) == [key |-> k, val |-> v]
Absent == [absent |-> TRUE, val |-> <<>>]
Present(v) == [absent |-> FALSE, val |-> v]
Dict2(k1, o1, k2, o2) ==
    (IF o1.absent THEN <<>> ELSE <<Entry(k1, o1.val)>>)
        \o (IF o2.absent THEN <<>> ELSE <<Entry(k2, o2.val)>>)

NoNames == [none |-> TRUE, map |-> <<>>]
NoColors == [none |-> TRUE, map |-> <<>>]
NoOrder == [given |-> FALSE, list |-> <<>>]
Given(l) == [given |-> TRUE, list |-> l]

InitCall(Tbls, Annos, FSamples, FFiles, Orders, Names, ColorLists, Batches) ==
    /\ pc = "VariantMap"
    /\ \E t \in Tbls :
           tables = [dataframe |-> t, derived |-> NoTable, copy |-> NoTable,
                     batch |-> NoTable]
    /\ \E o \in Orders :
           /\ sample_order_given = o.given
           /\ lists = [caller_order |-> o.list, metadata |-> MetadataNames,
                       local |-> <<>>, names |-> <<>>]
    /\ annotation \in Annos
    /\ filter_sample \in FSamples
    /\ filter_file \in FFiles
    /\ sample_names \in Names
    /\ color_list \in ColorLists
    /\ \E eb \in Batches : entries_per_batch = eb[1] /\ batch_no = eb[2]
    /\ df = "dataframe"
    /\ df_new = "unset"
    /\ samples = "unset"
    /\ sample_order = "unset"
    /\ names = "unset"
    /\ markers = <<>>
    /\ colors = <<>>
    /\ dcolorsc = <<>>
    /\ batch_size = 0
    /\ z = <<>>
    /\ hover = <<>>
    /\ snap = [reserved |-> <<>>, annot |-> <<>>, sample |-> <<>>, file |-> <<>>]

(***************************************************************************)
(* Calls that vary the reserved annotation keys.                           *)
(***************************************************************************)
GeneKinds ==
    {Kind(g, <<"x">>, <<"p">>, 2, 0, "0", "0") :
        g \in {<<"a", ";">>, <<"b", ";">>, <<"a", "b", ";">>}}

GeneLists == {Absent, Present(<<>>), Present(<< <<"a">> >>), Present(<< <<"b">> >>),
              Present(<< <<"a">>, <<"b">> >>)}

\* index_list as an allow-list: labels in increasing order, none repeated
\* (the label MaxRows is in no table, and a label past the end of a shorter
\* table is not in it either).
IndexLists ==
    {Absent} \cup
        {Present(l) : l \in {m \in SeqsUpTo(0..MaxRows, 2) :
                                \A i, j \in 1..Len(m) : i < j => m[i] < m[j]}}

ReservedAnnos ==
    {Dict2("Gene_name", g, "index_list", l) : g \in GeneLists, l \in IndexLists}

InitReserved ==
    InitCall(TablesOf(GeneKinds, MaxRows), ReservedAnnos, {<<>>}, {<<>>},
             {NoOrder}, {NoNames}, {NoColors}, {<<2, 1>>})

SpecReserved == InitReserved /\ [][Next]_vars

(***************************************************************************)
(* Calls that vary the other annotation keys and the filter files.         *)
(***************************************************************************)
WideKinds ==
    {Kind(<<"a", ";">>, t, f, 2, 0, f1, f2) :
        t \in {<<"x">>, <<"x", "y">>}, f \in {<<"p">>, <<"q">>},
        f1 \in {"0", "1"}, f2 \in {"0", "1"}}

TypeLists == {Absent, Present(<<>>), Present(<< <<"y">> >>),
              Present(<< <<"y">>, <<"x">> >>)}

FeatureLists == {Absent, Present(<<>>), Present(<< <<"p">> >>)}

OtherAnnos ==
    {Dict2("Gene_type", t, "Gene_feature", f) : t \in TypeLists, f \in FeatureLists}
        \cup {Dict2("Gene_feature", f, "Gene_type", t) :
                 t \in TypeLists, f \in FeatureLists}

FileLists == SeqsUpTo({"Filter1", "Filter2"}, 2)

InitAnnot ==
    InitCall(TablesOf(WideKinds, MaxWideRows), OtherAnnos, {<<>>, <<"S2">>},
             FileLists, {NoOrder}, {NoNames}, {NoColors}, {<<2, 1>>})

SpecAnnot == InitAnnot /\ [][Next]_vars

(***************************************************************************)
(* Calls that vary the sample filter.                                      *)
(***************************************************************************)
SampleKinds ==
    {Kind(<<"a", ";">>, <<"x">>, <<"p">>, s1, s2, "0", "0") :
        s1 \in {0, 2}, s2 \in {0, 4}}

SampleLists == SeqsUpTo({"S1", "S2"}, 2)

InitSample ==
    InitCall(TablesOf(SampleKinds, MaxRows), {<<>>}, SampleLists, {<<>>},
             {NoOrder}, {NoNames}, {NoColors}, {<<2, 1>>})

SpecSample == InitSample /\ [][Next]_vars

(***************************************************************************)
(* Calls that vary the table length, entries_per_batch and batch_no: short *)
(* tables with small batches, and one table just over 1001 rows with the   *)
(* default entries_per_batch.                                              *)
(***************************************************************************)
DefaultEntries == 2500

PlainTable(n) == TableOf([i \in 1..n |-> PlainKind])

SomeOrders == {NoOrder, Given(<<"S2", "S3", "S1">>)}

SomeNames == {NoNames, [none |-> FALSE, map |-> ("S1" :> "Patient A")]}

InitBatch ==
    \/ InitCall({PlainTable(n) : n \in 0..MaxBatchRows}, {<<>>}, {<<>>}, {<<>>},
                SomeOrders, SomeNames, {NoColors},
                (1..MaxEntries) \X ((-1)..(MaxBatchRows + 1)))
    \/ InitCall({PlainTable(LargeRows)}, {<<>>}, {<<>>}, {<<>>},
                SomeOrders, SomeNames, {NoColors},
                {DefaultEntries} \X ((-1)..3))

SpecBatch == InitBatch /\ [][Next]_vars

(***************************************************************************)
(* Calls that vary sample_order and sample_names.                          *)
(***************************************************************************)
RenderKinds ==
    {Kind(<<"a", ";">>, <<"x">>, <<"p">>, 0, 4, "0", "0"),
     Kind(<<"a", ";">>, <<"x">>, <<"p">>, 2, 0, "0", "0")}

RenderOrders ==
    {NoOrder, Given(<<"S2", "S3", "S1">>)}
        \cup {Given(l) : l \in SeqsUpTo({"S1", "S2", "S3"}, 2)}

RenderNames ==
    {NoNames,
     [none |-> FALSE, map |-> <<>>],
     [none |-> FALSE, map |-> ("S1" :> "Patient A")],
     [none |-> FALSE, map |-> ("S1" :> "Patient A") @@ ("S3" :> "Patient C")]}

InitRender ==
    InitCall(TablesOf(RenderKinds, MaxRows),
             {<<>>, <<Entry("index_list", <<0>>)>>}, {<<>>, <<"S1">>}, {<<>>},
             RenderOrders, RenderNames, {NoColors}, {<<1, 1>>, <<2, 1>>, <<2, 2>>})

SpecRender == InitRender /\ [][Next]_vars

(***************************************************************************)
(* Direct calls of discrete_colorscale, and calls of VariantMap that vary  *)
(* color_list.                                                             *)
(***************************************************************************)
Palette == {"#fff", "#000"}

CustomColor(c) == "my_" \o c

ColorLists ==
    {NoColors}
        \cup {[none |-> FALSE, map |-> [c \in S |-> CustomColor(c)]] :
                 S \in SUBSET (Range(sv_classes) \cup {"XYZ"})}

InitColor ==
    \/ InitCall({PlainTable(1)}, {<<>>}, {<<>>}, {<<>>}, {NoOrder}, {NoNames},
                ColorLists, {<<2, 1>>})
    \/ /\ pc = "discrete_colorscale"
       /\ markers \in SeqsUpTo(0..MaxMarker, MaxColors + 1)
       /\ colors \in SeqsUpTo(Palette, MaxColors)
       /\ tables = [dataframe |-> NoTable, derived |-> NoTable, copy |-> NoTable,
                    batch |-> NoTable]
       /\ lists = [caller_order |-> <<>>, metadata |-> <<>>, local |-> <<>>,
                   names |-> <<>>]
       /\ sample_order_given = FALSE
       /\ annotation = <<>>
       /\ filter_sample = <<>>
       /\ filter_file = <<>>
       /\ sample_names = NoNames
       /\ color_list = NoColors
       /\ entries_per_batch = DefaultEntries
       /\ batch_no = 1
       /\ df = "dataframe"
       /\ df_new = "unset"
       /\ samples = "unset"
       /\ sample_order = "unset"
       /\ names = "unset"
       /\ dcolorsc = <<>>
       /\ batch_size = 0
       /\ z = <<>>
       /\ hover = <<>>
       /\ snap = [reserved |-> <<>>, annot |-> <<>>, sample |-> <<>>, file |-> <<>>]

SpecColor == InitColor /\ [][NextColor]_vars

(***************************************************************************)
(* Properties.                                                             *)
(***************************************************************************)
\* The subsetting steps (lines 185-222) have completed.
Subsetted == pc \in {"batch", "reshape", "done"}

\* The batching step (lines 224-240) has completed.
Batched == pc \in {"reshape", "done"}

Src == tables.dataframe.rows

In(l, idx) == \E k \in 1..Len(idx) : idx[k] = l

ListOf(key) == IF HasKey(annotation, key) THEN Get(annotation, key) ELSE <<>>

\* The cell holds one of the names followed by ';'.
NamesAGene(cell, genes) ==
    \E k \in 1..Len(genes) : IsSubstr(genes[k] \o <<";">>, cell)

AllZero(r) == \A k \in 1..Len(filter_sample) : r.cells[filter_sample[k]] = 0

AllNonZero(r) == \A k \in 1..Len(filter_sample) : r.cells[filter_sample[k]] # 0

\* C1, as amended: after the sample-filter step every surviving row has the
\* value 0.0 in the column of every sample named in filter_sample, and every
\* row that entered the step with 0.0 in all of those columns survives it:
\* exactly the rows with a non-zero value for a named sample are dropped.
C1_SampleFilterKeepsZeroRows ==
    Subsetted =>
        \A i \in 1..Len(Src) :
            In(Src[i].index, snap.sample)
                <=> (In(Src[i].index, snap.annot) /\ AllZero(Src[i]))

\* C1, as stated: after the sample-filter step no surviving row has the value
\* 0.0 in the column of a named sample, and every row that has a non-zero
\* value in all of those columns survives.
C1_SampleFilterDropsZeroRows ==
    Subsetted =>
        \A i \in 1..Len(Src) :
            In(Src[i].index, snap.sample)
                <=> (In(Src[i].index, snap.annot) /\ AllNonZero(Src[i]))

\* A call with two named samples in which the sample filter drops some rows
\* and keeps others.
C1_Witness ==
    /\ pc = "done"
    /\ Len(filter_sample) = 2
    /\ filter_sample[1] # filter_sample[2]
    /\ snap.sample # <<>>
    /\ Len(snap.sample) < Len(snap.annot)

\* C3: after the reserved-key step a source row is present iff it names a
\* listed gene (name + ';') or its index is listed, when both lists are
\* non-empty; iff it satisfies the one non-empty list, when one is; always,
\* when both are empty or absent.
C3_ReservedKeysSelectUnion ==
    Subsetted =>
        LET genes == ListOf("Gene_name")
            labels == ListOf("index_list")
        IN  \A i \in 1..Len(Src) :
                In(Src[i].index, snap.reserved)
                    <=> IF genes # <<>> /\ labels # <<>>
                        THEN \/ NamesAGene(Src[i].cells["Gene_name"], genes)
                             \/ In(Src[i].index, labels)
                        ELSE IF genes # <<>>
                        THEN NamesAGene(Src[i].cells["Gene_name"], genes)
                        ELSE IF labels # <<>>
                        THEN In(Src[i].index, labels)
                        ELSE TRUE

\* Both lists non-empty; one row is present through its index alone, one
\* through its gene name alone, one row is absent.
C3_Witness ==
    /\ pc = "done"
    /\ ListOf("Gene_name") # <<>>
    /\ ListOf("index_list") # <<>>
    /\ \E i, j, k \in 1..Len(Src) :
           /\ In(Src[i].index, snap.reserved)
           /\ ~NamesAGene(Src[i].cells["Gene_name"], ListOf("Gene_name"))
           /\ In(Src[j].index, snap.reserved)
           /\ ~In(Src[j].index, ListOf("index_list"))
           /\ ~In(Src[k].index, snap.reserved)

OtherKey(e) == e.key \notin {"Gene_name", "index_list"} /\ e.val # <<>>

\* The index labels that reach batching when the annotation keys and the
\* filter identifiers are listed in the opposite order.
FileIndexReversed ==
    IndexOf(SubsetFile(
                SubsetSample(
                    SubsetAnnotation(
                        SubsetReserved(tables.dataframe, Reverse(annotation)),
                        Reverse(annotation)),
                    filter_sample),
                Reverse(filter_file)).t)

\* C4: a row reaches batching only if its field contains a listed value for
\* every non-reserved annotation key with a non-empty list and its value is
\* not "1" in every column named in filter_file; keys with an empty list and
\* an empty filter_file remove no row; the surviving set does not depend on
\* the order of the keys or of the filter identifiers.
C4_OtherKeysAndFilesIntersect ==
    Subsetted =>
        /\ \A i \in 1..Len(Src) :
               In(Src[i].index, snap.file) =>
                   /\ In(Src[i].index, snap.reserved)
                   /\ \A k \in 1..Len(annotation) :
                          OtherKey(annotation[k]) =>
                              \E v \in 1..Len(annotation[k].val) :
                                  IsSubstr(annotation[k].val[v],
                                           Src[i].cells[annotation[k].key])
                   /\ \A k \in 1..Len(filter_file) :
                          Src[i].cells[filter_file[k]] # "1"
        /\ (\A k \in 1..Len(annotation) : ~OtherKey(annotation[k]))
               => snap.annot = snap.reserved
        /\ filter_file = <<>> => snap.file = snap.sample
        /\ Range(snap.file) = Range(FileIndexReversed)

\* Two non-reserved keys and two filter files are in force and a row reaches
\* batching.
C4_Witness ==
    /\ pc = "done"
    /\ Len(annotation) = 2
    /\ \A k \in 1..Len(annotation) : OtherKey(annotation[k])
    /\ Len(filter_file) = 2
    /\ filter_file[1] # filter_file[2]
    /\ snap.file # <<>>

\* C7, as stated: the row sequence handed to batching is a subsequence of the
\* source table's rows: with the source index 0..n-1, its index labels are
\* strictly increasing.
C7_FilteredIsSubsequence ==
    Subsetted =>
        \A i, j \in 1..Len(snap.file) : i < j => snap.file[i] < snap.file[j]

\* The rows of the copy that carry the 'Group' column (line 237).
Grouped == tables.copy.rows

GroupAt(i) == Grouped[i].cells["Group"]

GroupSize(g) == Cardinality({i \in 1..Len(Grouped) : GroupAt(i) = g})

LastGroup == GroupAt(Len(Grouped))

\* C2, as stated: with n rows after filtering, each batch number in
\* 1..ceil(n / entries_per_batch) selects at least one row, no larger batch
\* number selects any, and the batches 1, 2, ... in that order are the
\* post-filter row sequence (every row's group number is one of them and the
\* group numbers never decrease along the rows).
C2_BatchCountIsCeiling ==
    Batched =>
        LET n == Len(Grouped)
            total == CeilDiv(n, entries_per_batch)
        IN  /\ batch_no \in 1..total => tables.batch.rows # <<>>
            /\ batch_no > total => tables.batch.rows = <<>>
            /\ \A i \in 1..n : GroupAt(i) \in 1..total
            /\ \A i \in 1..(n - 1) : GroupAt(i) <= GroupAt(i + 1)
            /\ IndexOf(tables.batch)
                   = SelectSeq(snap.file, LAMBDA l : In(l, IndexOf(tables.batch)))

\* C10: on a non-empty post-filter table 1 <= batch_size <= entries_per_batch,
\* no batch holds more than entries_per_batch rows, every batch but the last
\* holds exactly batch_size rows and the last one between 1 and batch_size.
C10_BatchSizeBounds ==
    (Batched /\ Len(Grouped) >= 1) =>
        /\ 1 <= batch_size
        /\ batch_size <= entries_per_batch
        /\ \A i \in 1..Len(Grouped) : GroupAt(i) \in 1..LastGroup
        /\ \A g \in 1..LastGroup :
               /\ GroupSize(g) <= entries_per_batch
               /\ g < LastGroup => GroupSize(g) = batch_size
               /\ g = LastGroup => GroupSize(g) \in 1..batch_size

\* Several batches, the last one shorter than the others.
C10_Witness ==
    /\ pc = "done"
    /\ Len(Grouped) >= 3
    /\ LastGroup >= 3
    /\ GroupSize(1) = batch_size
    /\ GroupSize(LastGroup) < batch_size

\* The sample order the call resolves to: the caller's list, or the metadata
\* list, restricted to the columns of the table.
Resolved ==
    SelectSeq(IF sample_order_given THEN lists.caller_order ELSE lists.metadata,
              LAMBDA x : x \in tables.dataframe.cols)

ColumnOfBatch(c) ==
    [j \in 1..Len(tables.batch.rows) |-> tables.batch.rows[j].cells[c]]

LabelOf(x) ==
    IF ~sample_names.none /\ x \in DOMAIN sample_names.map
    THEN sample_names.map[x] ELSE x

\* C5: with R the resolved sample order and k its length, z, hover and the
\* labels have k entries each, and entry i (from 0) of each is built from
\* R[k-1-i]: its column of the selected batch, its 'Hover_' column of the same
\* rows, and its display name if sample_names has one, else the name itself.
C5_OutputReversedAndAligned ==
    pc = "done" =>
        LET k == Len(Resolved)
        IN  /\ Len(z) = k
            /\ Len(hover) = k
            /\ Len(lists[names]) = k
            /\ \A i \in 1..k :
                   /\ z[i] = ColumnOfBatch(Resolved[k + 1 - i])
                   /\ hover[i] = ColumnOfBatch("Hover_" \o Resolved[k + 1 - i])
                   /\ lists[names][i] = LabelOf(Resolved[k + 1 - i])

\* Two different samples in the caller's order, one of them renamed, a
\* non-column name dropped, and a batch of two rows.
C5_Witness ==
    /\ pc = "done"
    /\ sample_order_given
    /\ lists.caller_order = <<"S2", "S3", "S1">>
    /\ ~sample_names.none
    /\ lists[names] = <<"Patient A", "S2">>
    /\ Len(tables.batch.rows) = 2
    /\ z[1] # z[2]

IsGroupNumber(b) == \E i \in 1..Len(Grouped) : GroupAt(i) = b

\* C6: on a non-empty post-filter table, a batch_no that is no computed
\* group's number does not make the build raise: it ends with one row per
\* resolved sample in z and in hover, each with zero columns, and with every
\* label in place.
C6_BatchOutOfRangeIsEmpty ==
    (Batched /\ Len(Grouped) >= 1 /\ ~IsGroupNumber(batch_no)) =>
        /\ pc # "error"
        /\ tables.batch.rows = <<>>
        /\ pc = "done" =>
               /\ Len(z) = Len(Resolved)
               /\ Len(hover) = Len(Resolved)
               /\ \A i \in 1..Len(Resolved) : z[i] = <<>> /\ hover[i] = <<>>
               /\ Len(lists[names]) = Len(Resolved)
               /\ \A i \in 1..Len(Resolved) :
                      lists[names][i] = LabelOf(Resolved[Len(Resolved) + 1 - i])

\* A finished build of a batch number above the last group of a table of
\* several rows, with two sample rows and both labels.
C6_Witness ==
    /\ pc = "done"
    /\ Len(Grouped) >= 2
    /\ batch_no > LastGroup
    /\ Len(z) = 2
    /\ lists[names] = <<"Patient A", "S2">>

\* C8: a call changes neither the caller's table (rows, columns, cells), nor
\* the caller's sample_order list, nor the metadata sample list, nor the
\* sample_names mapping.
C8_InputsUnchanged ==
    [][/\ tables'.dataframe = tables.dataframe
       /\ lists'.caller_order = lists.caller_order
       /\ lists'.metadata = lists.metadata
       /\ sample_names' = sample_names]_vars

\* A finished call with no filter, so that df is the caller's table, whose
\* labels are the resolved list itself, reversed in place.
C8_Witness ==
    /\ pc = "done"
    /\ df = "dataframe"
    /\ "Group" \in tables.copy.cols
    /\ "Group" \notin tables.dataframe.cols
    /\ names = sample_order
    /\ lists[names] = <<"S1", "S2">>
    /\ lists.caller_order = <<"S2", "S1">>

StrictlyIncreasing(m) == \A i \in 1..(Len(m) - 1) : m[i] < m[i + 1]

\* A direct call has returned a scale for N >= 1 colours and N + 1 strictly
\* increasing markers.
StepCall ==
    /\ pc = "returned"
    /\ Len(colors) >= 1
    /\ Len(markers) = Len(colors) + 1
    /\ StrictlyIncreasing(markers)

Span == markers[Len(markers)] - markers[1]

\* p thousandths is (markers[i] - markers[1]) / Span exactly.
ExactNorm(p, i) == p * Span = 1000 * (markers[i] - markers[1])

\* p thousandths is (markers[i] - markers[1]) / Span rounded to three
\* decimals, a tie going to the even thousandth.
RoundedNorm(p, i) ==
    LET err == 1000 * (markers[i] - markers[1]) - p * Span
        dist == IF err < 0 THEN -err ELSE err
    IN  /\ 2 * dist <= Span
        /\ 2 * dist = Span => p % 2 = 0

Position(j) == dcolorsc[j][1]

\* The shape of the scale, whatever the normalisation: 2N points, colour i at
\* points 2i-1 and 2i, from 0 to 1 without decreasing, every interior boundary
\* shared by the right point of one colour and the left point of the next, and
\* by no other point when the boundaries are distinct.
StepShape ==
    LET N == Len(colors)
    IN  /\ Len(dcolorsc) = 2 * N
        /\ \A i \in 1..N :
               dcolorsc[2 * i - 1][2] = colors[i] /\ dcolorsc[2 * i][2] = colors[i]
        /\ Position(1) = 0
        /\ Position(2 * N) = 1000
        /\ \A j \in 1..(2 * N - 1) : Position(j) <= Position(j + 1)
        /\ \A i \in 2..N :
               /\ Position(2 * i - 2) = Position(2 * i - 1)
               /\ (\A j \in 1..N : Position(2 * j - 1) < Position(2 * j))
                      => Cardinality({j \in 1..(2 * N) :
                                         Position(j) = Position(2 * i - 1)}) = 2

\* The colour list and markers that a call of VariantMap hands to the builder.
VariantColors ==
    (samples # "unset" /\ markers # <<>>) =>
        /\ Len(markers) = 8
        /\ Len(colors) = 7
        /\ \A i \in 1..7 :
               LET c == <<"NIL", "DEL", "INV", "INS", "BND", "DUP", "UKN">>[i]
               IN  colors[i] = IF ~color_list.none /\ c \in DOMAIN color_list.map
                               THEN color_list.map[c] ELSE color_dict[c]

FffExample ==
    (pc = "returned" /\ markers = <<0, 1>> /\ colors = <<"#fff">>)
        => dcolorsc = << <<0, "#fff">>, <<1000, "#fff">> >>

\* C9, as amended: for N >= 1 colours and N + 1 strictly increasing markers
\* the builder returns 2N points, point 2i being (norm[i], colors[i]) and point
\* 2i+1 (norm[i+1], colors[i]), with norm the min-max normalisation of the
\* markers rounded to three decimals; the scale runs from 0 to 1 without
\* decreasing and each interior boundary is shared by two adjacent points, one
\* of each neighbouring colour; markers [0.0, 1.0] with ['#fff'] give
\* [[0.0,'#fff'],[1.0,'#fff']]; VariantMap hands over 8 markers and the 7
\* colours NIL..UKN, each from color_list if present, else the default.
C9_StepColorscaleRounded ==
    /\ StepCall =>
           /\ StepShape
           /\ \A i \in 1..Len(colors) :
                  /\ RoundedNorm(Position(2 * i - 1), i)
                  /\ RoundedNorm(Position(2 * i), i + 1)
    /\ FffExample
    /\ VariantColors

\* C9, as stated: the same with norm the min-max normalisation itself.
C9_StepColorscaleExact ==
    /\ StepCall =>
           /\ StepShape
           /\ \A i \in 1..Len(colors) :
                  /\ ExactNorm(Position(2 * i - 1), i)
                  /\ ExactNorm(Position(2 * i), i + 1)
    /\ FffExample
    /\ VariantColors

\* A returned scale of two different colours whose interior boundary is not
\* a whole number of thousandths.
C9_Witness ==
    /\ StepCall
    /\ Len(colors) = 2
    /\ colors[1] # colors[2]
    /\ ~ExactNorm(Position(2), 2)
    /\ Position(2) = Position(3)

====
